---- MODULE Spec2Model ----
(***************************************************************************)
(* Model of mac/open_in_safari_server.py: the configuration loaded once at *)
(* import time, the threaded HTTP listener, and the request handlers       *)
(* do_OPTIONS / do_GET / do_POST with the helpers they call                *)
(* (client_allowed, _extract_token, _read_json, open_in_safari).           *)
(*                                                                         *)
(* Text that the code inspects character by character (URLs, request      *)
(* paths) is a sequence of one-character strings, so that str.startswith   *)
(* and str.strip are computed, not assumed.  Text that the code only       *)
(* compares for equality or passes through (tokens, messages) is a string. *)
(***************************************************************************)
EXTENDS Integers, Sequences, FiniteSets, TLC

(***************************************************************************)
(* Bounds of the model.                                                    *)
(***************************************************************************)
\* Longest run of whitespace put before or after a URL in a request body.
MaxPad == 1
\* Number of requests the listener accepts in one behaviour.
MaxRequests == 2

(***************************************************************************)
(* Text helpers: str.startswith and str.strip.                             *)
(***************************************************************************)
IsSpace(c) == c \in {" ", "\t", "\n"}

StartsWith(s, p) == Len(s) >= Len(p) /\ SubSeq(s, 1, Len(p)) = p

RECURSIVE LStrip(_)
LStrip(s) == IF s # <<>> /\ IsSpace(Head(s)) THEN LStrip(Tail(s)) ELSE s

RECURSIVE RStrip(_)
RStrip(s) ==
    IF s # <<>> /\ IsSpace(s[Len(s)]) THEN RStrip(SubSeq(s, 1, Len(s) - 1)) ELSE s

Strip(s) == RStrip(LStrip(s))

RECURSIVE Spaces(_)
Spaces(n) == IF n = 0 THEN <<>> ELSE <<" ">> \o Spaces(n - 1)

HTTP == <<"h", "t", "t", "p", ":", "/", "/">>
HTTPS == <<"h", "t", "t", "p", "s", ":", "/", "/">>
FTP == <<"f", "t", "p", ":", "/", "/">>
\* A near miss of the http scheme: "http:/" .
HTTP1 == <<"h", "t", "t", "p", ":", "/">>
HOST == <<"a">>

Pads == {Spaces(n) : n \in 0..MaxPad}

\* The url strings a request body may carry: each scheme with optional
\* whitespace around it, the empty string and whitespace alone.
Urls ==
    {pre \o sch \o HOST \o post : pre \in Pads, sch \in {HTTP, HTTPS, FTP, HTTP1},
                                  post \in Pads}
    \cup Pads

PING == <<"/", "p", "i", "n", "g">>
OPEN == <<"/", "o", "p", "e", "n">>
Paths == {PING, OPEN, PING \o <<"x">>, OPEN \o <<"?", "a">>, <<"/">>}

(***************************************************************************)
(* Addresses and networks (ipaddress.ip_address / ip_network).             *)
(***************************************************************************)
\* A text that parses as an IPv4 address or network is kept as its octets;
\* a text that does not parse is kind "bad".
Addr(a, b, c, d) == [kind |-> "v4", o |-> <<a, b, c, d>>]
BadAddr == [kind |-> "bad", o |-> <<0, 0, 0, 0>>]
Cidr(a, b, c, d, p) == [kind |-> "v4", o |-> <<a, b, c, d>>, p |-> p]
BadCidr == [kind |-> "bad", o |-> <<0, 0, 0, 0>>, p |-> 0]
\* A whitespace-only piece of the comma-separated OIS_ALLOWED_SUBNETS.
BlankCidr == [kind |-> "blank", o |-> <<0, 0, 0, 0>>, p |-> 0]

RECURSIVE Pow2(_)
Pow2(n) == IF n = 0 THEN 1 ELSE 2 * Pow2(n - 1)

ToInt(o) == ((o[1] * 256 + o[2]) * 256 + o[3]) * 256 + o[4]

\* ip_obj in ipaddress.ip_network(cidr, strict=False): host bits are masked.
InNetwork(ip, net) ==
    ToInt(ip.o) \div Pow2(32 - net.p) = ToInt(net.o) \div Pow2(32 - net.p)

ClientIps == {Addr(10, 211, 55, 5), Addr(10, 37, 129, 200), Addr(10, 0, 0, 5),
              Addr(127, 0, 0, 1), BadAddr}

(***************************************************************************)
(* CONFIG and load_env_overrides.                                          *)
(***************************************************************************)
\* The fields of CONFIG that request handling reads.  PORT and BIND_ADDRESS
\* are read by main() only and VERBOSE by log() only.
DefaultConfig ==
    [ALLOWED_SUBNETS |-> <<Cidr(10, 211, 55, 0, 24), Cidr(10, 37, 129, 0, 24)>>,
     SHARED_TOKEN |-> "changeme123456",
     DRY_RUN |-> FALSE]

\* os.environ.get(name): Unset stands for None.
Unset == "<unset>"
EnvTokens == {Unset, "", "s3cret"}
EnvDryRuns == {Unset, "true", "TRUE", "1"}
\* OIS_ALLOWED_SUBNETS: unset, the empty string, or the pieces of its
\* split(",") .
EnvList(items) == [set |-> "list", items |-> items]
EnvSubnets ==
    {[set |-> "unset", items |-> <<>>],
     [set |-> "empty", items |-> <<>>],
     EnvList(<<BlankCidr, BlankCidr>>),
     EnvList(<<Cidr(127, 0, 0, 1, 8)>>),
     EnvList(<<BadCidr, BlankCidr, Cidr(10, 0, 0, 77, 24)>>)}

Lower(s) == IF s \in {"TRUE", "True"} THEN "true" ELSE s

RECURSIVE NonBlank(_)
NonBlank(items) ==
    IF items = <<>> THEN <<>>
    ELSE IF Head(items).kind = "blank" THEN NonBlank(Tail(items))
    ELSE <<Head(items)>> \o NonBlank(Tail(items))

Truthy(s) == s # Unset /\ s # ""

ConfigFromEnv(token, subnets, dry) ==
    [ALLOWED_SUBNETS |->
        IF subnets.set = "list" THEN NonBlank(subnets.items)
        ELSE DefaultConfig.ALLOWED_SUBNETS,
     SHARED_TOKEN |-> IF Truthy(token) THEN token ELSE DefaultConfig.SHARED_TOKEN,
     DRY_RUN |-> Lower(IF dry = Unset THEN "false" ELSE dry) = "true"]

(***************************************************************************)
(* client_allowed and the secret check.                                    *)
(***************************************************************************)
\* The for loop of client_allowed: a range that does not parse is skipped.
RECURSIVE InAnyNetwork(_, _)
InAnyNetwork(ip, nets) ==
    IF nets = <<>> THEN FALSE
    ELSE IF Head(nets).kind = "v4" /\ InNetwork(ip, Head(nets)) THEN TRUE
    ELSE InAnyNetwork(ip, Tail(nets))

\* client_allowed with "except ValueError: return True": an address that
\* does not parse is let through.
client_allowed_unparsed(cfg, client_ip) ==
    IF client_ip.kind # "v4" THEN TRUE
    ELSE InAnyNetwork(client_ip, cfg.ALLOWED_SUBNETS)

client_allowed(cfg, client_ip) ==
    IF client_ip.kind # "v4" THEN FALSE
    ELSE InAnyNetwork(client_ip, cfg.ALLOWED_SUBNETS)

\* The X-OpenInSafari-Token header of a request: a string, or NoHeader.
NoHeader == "<no header>"
HeaderTokens == {NoHeader, "changeme123456", "s3cret"}

_extract_token(r) == IF r.token = NoHeader THEN "" ELSE r.token

\* The secret check with a request that sends no token header let through.
token_ok_absent(cfg, r) ==
    IF cfg.SHARED_TOKEN # "" /\ r.token # NoHeader
    THEN _extract_token(r) = cfg.SHARED_TOKEN ELSE TRUE

\* token_ok of do_GET, and the test of do_POST that leads to 401 when false.
token_ok(cfg, r) ==
    IF cfg.SHARED_TOKEN # "" THEN _extract_token(r) = cfg.SHARED_TOKEN ELSE TRUE

(***************************************************************************)
(* Request bodies and _read_json.                                          *)
(***************************************************************************)
\* A decoded JSON value.  t is its Python type; s its text when it is a
\* str; n its value when it is a number, its length when it is a list.
JStr(s) == [t |-> "str", s |-> s, n |-> 0]
JNull == [t |-> "NoneType", s |-> <<>>, n |-> 0]
JNum(n) == [t |-> "int", s |-> <<>>, n |-> n]
JList(n) == [t |-> "list", s |-> <<>>, n |-> n]
JVals == {JStr(u) : u \in Urls} \cup {JNull, JNum(0), JNum(5), JList(0), JList(1)}

\* What json.loads or the parse_qs fallback returns: a dict, with or
\* without the key "url", or a JSON value that is no dict.
Dict(has, v) == [t |-> "dict", has_url |-> has, url |-> v]
NoUrlDict == Dict(FALSE, JNull)
NonDict(v) == [t |-> v.t, has_url |-> FALSE, url |-> v]

\* The body as sent.  kind "none": Content-Length absent, empty or <= 0;
\* "bad_length": a Content-Length that is no integer; "binary": bytes that
\* are not UTF-8; "text": UTF-8 text that is not JSON and holds no
\* key=value pair; "json": a JSON document; "form": key=value pairs.
Body(kind, data) == [kind |-> kind, data |-> data]
JsonBodies ==
    {Body("json", Dict(TRUE, v)) : v \in JVals}
    \cup {Body("json", NoUrlDict)}
    \cup {Body("json", NonDict(v)) : v \in {JNull, JNum(5), JList(1), JStr(HTTPS \o HOST)}}
FormBodies ==
    {Body("form", Dict(TRUE, JStr(u))) : u \in {HTTPS \o HOST, FTP \o HOST}}
    \cup {Body("form", NoUrlDict)}
EmptyBody == Body("none", NoUrlDict)
Bodies ==
    JsonBodies \cup FormBodies
    \cup {EmptyBody, Body("bad_length", NoUrlDict), Body("binary", NoUrlDict),
          Body("text", NoUrlDict)}

\* The result of a call: exc is the exception it raised ("" for none).
Ret(v) == [exc |-> "", val |-> v]
Raise(e, v) == [exc |-> e, val |-> v]

\* _read_json without the except clauses: a body that does not decode
\* raises.
_read_json_strict(body) ==
    CASE body.kind = "bad_length" -> Raise("ValueError", NoUrlDict)
      [] body.kind = "none" -> Ret(NoUrlDict)
      [] body.kind = "json" -> Ret(body.data)
      [] body.kind = "form" -> Raise("JSONDecodeError", NoUrlDict)
      [] body.kind = "text" -> Raise("JSONDecodeError", NoUrlDict)
      [] OTHER -> Raise("UnicodeDecodeError", NoUrlDict)

_read_json(body) ==
    CASE body.kind = "bad_length" -> Raise("ValueError", NoUrlDict)
      [] body.kind = "none" -> Ret(NoUrlDict)
      [] body.kind = "json" -> Ret(body.data)
      [] body.kind = "form" -> Ret(body.data)
      [] OTHER -> Ret(NoUrlDict)

\* Python's truth value of a decoded JSON value.
PyTrue(v) ==
    CASE v.t = "str" -> v.s # <<>>
      [] v.t = "NoneType" -> FALSE
      [] OTHER -> v.n # 0

\* url = (data.get("url") or "").strip()
ExtractUrl(data) ==
    IF data.t # "dict" THEN Raise("AttributeError", <<>>)
    ELSE LET got == IF data.has_url THEN data.url ELSE JNull
             val == IF PyTrue(got) THEN got ELSE JStr(<<>>)
         IN IF val.t # "str" THEN Raise("AttributeError", <<>>)
            ELSE Ret(Strip(val.s))

(***************************************************************************)
(* Requests and responses.                                                 *)
(***************************************************************************)
Methods == {"GET", "POST", "OPTIONS", "PUT"}

Request(m, p, ip, tok, b) ==
    [method |-> m, path |-> p, client_ip |-> ip, token |-> tok, body |-> b]

\* Only do_POST reads the body, so the other methods are sent without one.
Requests ==
    {Request("POST", p, ip, tok, b) :
        p \in Paths, ip \in ClientIps, tok \in HeaderTokens, b \in Bodies}
    \cup {Request(m, p, ip, tok, EmptyBody) :
        m \in Methods \ {"POST"}, p \in Paths, ip \in ClientIps, tok \in HeaderTokens}

NoRequest == Request("", <<>>, BadAddr, NoHeader, EmptyBody)

VERSION == "1.0.0"

NoPayload == [len |-> 0]
Response(code, ctype, payload) ==
    [status |-> code, ctype |-> ctype, body |-> payload, exc |-> ""]
\* No response was written; exc names the exception that ended the worker.
Unhandled(e) == [status |-> 0, ctype |-> "", body |-> NoPayload, exc |-> e]
NoResponse == Unhandled("")

JSON == "application/json; charset=utf-8"

_reject(code, msg) == Response(code, JSON, [ok |-> FALSE, error |-> msg])
_ok(payload) == Response(200, JSON, payload)

IsJsonError(r) ==
    /\ r.ctype = JSON
    /\ DOMAIN r.body = {"ok", "error"}
    /\ r.body.ok = FALSE

(***************************************************************************)
(* open_in_safari and the /usr/bin/open child process.                     *)
(***************************************************************************)
\* The scheme test as url.startswith("http").
SchemeOk_prefix(u) == StartsWith(u, <<"h", "t", "t", "p">>)

SchemeOk(u) == StartsWith(u, HTTP) \/ StartsWith(u, HTTPS)

\* How one call of subprocess.run(..., timeout=10) goes: the child exits
\* with a return code and some stderr, the call raises (the tool cannot be
\* started), or the child hangs.
Child(kind, code, stderr) == [kind |-> kind, code |-> code, stderr |-> stderr]
NoChild == Child("", 0, "")
NoApp == "Unable to find application named 'Safari'"
Children ==
    {Child("exit", 0, ""), Child("exit", 1, ""), Child("exit", 1, "\n"),
     Child("exit", 1, NoApp \o "\n"),
     Child("raise", 0, "[Errno 2] No such file or directory: '/usr/bin/open'"),
     Child("hang", 0, "")}

\* res.stderr.strip() on the stderr texts of Children.
StderrStrip(e) == IF e = "\n" THEN "" ELSE IF e = NoApp \o "\n" THEN NoApp ELSE e

TimeoutExpired == "Command '['/usr/bin/open', '-a', 'Safari', url]' timed out after 10 seconds"

\* open_in_safari with the return code test inverted.
RunResult_inverted(c) ==
    CASE c.kind = "exit" /\ c.code = 0 ->
            [ok |-> FALSE,
             msg |-> IF StderrStrip(c.stderr) # "" THEN StderrStrip(c.stderr)
                     ELSE "Unknown error from 'open'"]
      [] c.kind = "exit" /\ c.code # 0 -> [ok |-> TRUE, msg |-> "Opened in Safari"]
      [] c.kind = "raise" -> [ok |-> FALSE, msg |-> c.stderr]
      [] OTHER -> [ok |-> FALSE, msg |-> TimeoutExpired]

\* The (ok, msg) open_in_safari returns once subprocess.run has returned
\* or raised.  A child still running after 10 seconds is killed and
\* subprocess.run raises TimeoutExpired.
RunResult(c) ==
    CASE c.kind = "exit" /\ c.code # 0 ->
            [ok |-> FALSE,
             msg |-> IF StderrStrip(c.stderr) # "" THEN StderrStrip(c.stderr)
                     ELSE "Unknown error from 'open'"]
      [] c.kind = "exit" /\ c.code = 0 -> [ok |-> TRUE, msg |-> "Opened in Safari"]
      [] c.kind = "raise" -> [ok |-> FALSE, msg |-> c.stderr]
      [] OTHER -> [ok |-> FALSE, msg |-> TimeoutExpired]

\* do_POST lines 208-213: the response made from open_in_safari's result.
ActionResponse(res) ==
    IF res.ok THEN _ok([ok |-> TRUE, message |-> res.msg]) ELSE _reject(500, res.msg)

\* The ping payload with ok computed as "token_ok or allowed".
PingPayload_or(cfg, r) ==
    LET tok == token_ok(cfg, r)
        allowed == client_allowed(cfg, r.client_ip)
    IN [ok |-> tok \/ allowed, version |-> VERSION, client_ip |-> r.client_ip,
        allowed |-> allowed, token_ok |-> tok]

\* The payload of GET /ping.
PingPayload(cfg, r) ==
    LET tok == token_ok(cfg, r)
        allowed == client_allowed(cfg, r.client_ip)
    IN [ok |-> tok /\ allowed, version |-> VERSION, client_ip |-> r.client_ip,
        allowed |-> allowed, token_ok |-> tok]

IsPing(path) == StartsWith(path, PING)
\* The route test of do_POST as path.startswith("/").
IsOpen_slash(path) == StartsWith(path, <<"/">>)

IsOpen(path) == StartsWith(path, OPEN)

(***************************************************************************)
(* State.                                                                  *)
(***************************************************************************)
Workers == {"w1", "w2"}

VARIABLES
    phase,      \* "boot", "loaded", "serving" or "exited"
    CONFIG,     \* the module-level CONFIG dict
    pc,         \* per worker thread: where it is in its handler
    req,        \* per worker: the request it handles
    url,        \* per worker: do_POST's local url
    child,      \* per worker: the child process of its subprocess.run
    resp,       \* per worker: the response it wrote
    launched,   \* per worker: the URLs it passed to /usr/bin/open
    trace,      \* per worker: the checks its handler has made, in order
    accepted,   \* requests accepted so far
    osCount,    \* subprocess.run calls made so far, over all workers
    expected    \* finished requests that met every condition to launch

vars == <<phase, CONFIG, pc, req, url, child, resp, launched, trace,
          accepted, osCount, expected>>

Init ==
    /\ phase = "boot"
    /\ CONFIG = DefaultConfig
    /\ pc = [w \in Workers |-> "idle"]
    /\ req = [w \in Workers |-> NoRequest]
    /\ url = [w \in Workers |-> <<>>]
    /\ child = [w \in Workers |-> NoChild]
    /\ resp = [w \in Workers |-> NoResponse]
    /\ launched = [w \in Workers |-> <<>>]
    /\ trace = [w \in Workers |-> <<>>]
    /\ accepted = 0
    /\ osCount = 0
    /\ expected = 0

workerVars == <<pc, req, url, child, resp, launched, trace>>
counters == <<accepted, osCount, expected>>

(***************************************************************************)
(* Startup.                                                                *)
(***************************************************************************)
load_env_overrides ==
    /\ phase = "boot"
    /\ \E token \in EnvTokens, subnets \in EnvSubnets, dry \in EnvDryRuns :
          CONFIG' = ConfigFromEnv(token, subnets, dry)
    /\ phase' = "loaded"
    /\ UNCHANGED <<workerVars, counters>>

\* main(): the listener binds and serves, or the bind fails and the
\* process exits with status 1.
main ==
    /\ phase = "loaded"
    /\ \E bound \in BOOLEAN : phase' = IF bound THEN "serving" ELSE "exited"
    /\ UNCHANGED <<CONFIG, workerVars, counters>>

(***************************************************************************)
(* One request in one worker thread.                                       *)
(***************************************************************************)
\* The pure condition under which a request makes do_POST call
\* subprocess.run.
ShouldLaunch(cfg, r) ==
    /\ r.method = "POST"
    /\ client_allowed(cfg, r.client_ip)
    /\ token_ok(cfg, r)
    /\ IsOpen(r.path)
    /\ _read_json(r.body).exc = ""
    /\ ExtractUrl(_read_json(r.body).val).exc = ""
    /\ SchemeOk(ExtractUrl(_read_json(r.body).val).val)
    /\ ~cfg.DRY_RUN

\* A worker thread is free and the listener may still accept.
CanStart(w) == phase = "serving" /\ pc[w] = "idle" /\ accepted < MaxRequests

Start(w, r) ==
    /\ accepted' = accepted + 1
    /\ pc' = [pc EXCEPT ![w] = "dispatch"]
    /\ req' = [req EXCEPT ![w] = r]
    /\ UNCHANGED <<phase, CONFIG, url, child, resp, launched, trace, osCount, expected>>

\* ThreadingMixIn.process_request: the listener hands a request to a thread.
Accept == CanStart("w1") /\ \E r \in Requests : Start("w1", r)

Respond(w, r) ==
    /\ resp' = [resp EXCEPT ![w] = r]
    /\ pc' = [pc EXCEPT ![w] = "done"]

Note(w, what) == trace' = [trace EXCEPT ![w] = Append(@, what)]

do_OPTIONS(w) ==
    /\ pc[w] = "dispatch"
    /\ req[w].method = "OPTIONS"
    /\ Respond(w, Response(204, "", NoPayload))
    /\ UNCHANGED <<phase, CONFIG, req, url, child, launched, trace, counters>>

\* A method Handler defines no do_ method for: the base class answers 501.
Unsupported(w) ==
    /\ pc[w] = "dispatch"
    /\ req[w].method \notin {"GET", "POST", "OPTIONS"}
    /\ Respond(w, Response(501, "text/html;charset=utf-8", [html |-> "Unsupported method"]))
    /\ UNCHANGED <<phase, CONFIG, req, url, child, launched, trace, counters>>

do_GET(w) ==
    /\ pc[w] = "dispatch"
    /\ req[w].method = "GET"
    /\ IF IsPing(req[w].path)
       THEN /\ Respond(w, _ok(PingPayload(CONFIG, req[w])))
            /\ Note(w, "ping")
       ELSE /\ Respond(w, _reject(404, "Not Found"))
            /\ UNCHANGED trace
    /\ UNCHANGED <<phase, CONFIG, req, url, child, launched, counters>>

\* do_POST lines 193-196.
do_POST_origin(w) ==
    /\ pc[w] = "dispatch"
    /\ req[w].method = "POST"
    /\ Note(w, "origin")
    /\ IF ~client_allowed(CONFIG, req[w].client_ip)
       THEN Respond(w, _reject(403, "Forbidden: Client IP not allowed"))
       ELSE /\ pc' = [pc EXCEPT ![w] = "token"]
            /\ UNCHANGED resp
    /\ UNCHANGED <<phase, CONFIG, req, url, child, launched, counters>>

\* The secret check of do_POST made single-use: a token that matched is
\* replaced in CONFIG, so that it cannot be used again.
do_POST_token_once(w) ==
    /\ pc[w] = "token"
    /\ Note(w, "token")
    /\ IF ~token_ok(CONFIG, req[w])
       THEN /\ Respond(w, _reject(401, "Unauthorized: Bad token"))
            /\ UNCHANGED CONFIG
       ELSE /\ pc' = [pc EXCEPT ![w] = "route"]
            /\ CONFIG' = [CONFIG EXCEPT !.SHARED_TOKEN = "used"]
            /\ UNCHANGED resp
    /\ UNCHANGED <<phase, req, url, child, launched, counters>>

\* do_POST lines 197-201.
do_POST_token(w) ==
    /\ pc[w] = "token"
    /\ IF CONFIG.SHARED_TOKEN # ""
       THEN /\ Note(w, "token")
            /\ IF ~token_ok(CONFIG, req[w])
               THEN Respond(w, _reject(401, "Unauthorized: Bad token"))
               ELSE /\ pc' = [pc EXCEPT ![w] = "route"]
                    /\ UNCHANGED resp
       ELSE /\ pc' = [pc EXCEPT ![w] = "route"]
            /\ UNCHANGED <<resp, trace>>
    /\ UNCHANGED <<phase, CONFIG, req, url, child, launched, counters>>

\* do_POST lines 202-206 and 214.
do_POST_route(w) ==
    /\ pc[w] = "route"
    /\ IF ~IsOpen(req[w].path)
       THEN /\ Respond(w, _reject(404, "Not Found"))
            /\ UNCHANGED <<url, trace>>
       ELSE LET data == _read_json(req[w].body)
                got == ExtractUrl(data.val)
            IN /\ Note(w, "body")
               /\ IF data.exc # ""
                  THEN Respond(w, Unhandled(data.exc)) /\ UNCHANGED url
                  ELSE IF got.exc # ""
                  THEN Respond(w, Unhandled(got.exc)) /\ UNCHANGED url
                  ELSE IF got.val = <<>>
                  THEN Respond(w, _reject(400, "Missing 'url'")) /\ UNCHANGED url
                  ELSE /\ url' = [url EXCEPT ![w] = got.val]
                       /\ pc' = [pc EXCEPT ![w] = "action"]
                       /\ UNCHANGED resp
    /\ UNCHANGED <<phase, CONFIG, req, child, launched, counters>>

\* open_in_safari lines 100-115, up to the call of subprocess.run.
open_in_safari(w) ==
    /\ pc[w] = "action"
    /\ Note(w, "action")
    /\ IF ~SchemeOk(url[w])
       THEN /\ Respond(w, ActionResponse(
                    [ok |-> FALSE, msg |-> "Only http/https URLs are permitted."]))
            /\ UNCHANGED <<child, launched, osCount>>
       ELSE IF CONFIG.DRY_RUN
       THEN /\ Respond(w, ActionResponse([ok |-> TRUE, msg |-> "DRY_RUN: OK"]))
            /\ UNCHANGED <<child, launched, osCount>>
       ELSE /\ \E c \in Children : child' = [child EXCEPT ![w] = c]
            /\ launched' = [launched EXCEPT ![w] = Append(@, url[w])]
            /\ osCount' = osCount + 1
            /\ pc' = [pc EXCEPT ![w] = "running"]
            /\ UNCHANGED resp
    /\ UNCHANGED <<phase, CONFIG, req, url, accepted, expected>>

\* subprocess.run called without timeout=10: a child that hangs is waited
\* for without end.
subprocess_done_no_timeout(w) ==
    /\ pc[w] = "running"
    /\ child[w].kind # "hang"
    /\ Respond(w, ActionResponse(RunResult(child[w])))
    /\ UNCHANGED <<phase, CONFIG, req, url, child, launched, trace, counters>>

\* subprocess.run returns or raises (after at most 10 seconds), and
\* do_POST writes the response.
subprocess_done(w) ==
    /\ pc[w] = "running"
    /\ Respond(w, ActionResponse(RunResult(child[w])))
    /\ UNCHANGED <<phase, CONFIG, req, url, child, launched, trace, counters>>

\* The handler has returned (or raised): the thread ends.
Finish(w) ==
    /\ pc[w] = "done"
    /\ expected' = expected + (IF ShouldLaunch(CONFIG, req[w]) THEN 1 ELSE 0)
    /\ pc' = [pc EXCEPT ![w] = "idle"]
    /\ req' = [req EXCEPT ![w] = NoRequest]
    /\ url' = [url EXCEPT ![w] = <<>>]
    /\ child' = [child EXCEPT ![w] = NoChild]
    /\ resp' = [resp EXCEPT ![w] = NoResponse]
    /\ launched' = [launched EXCEPT ![w] = <<>>]
    /\ trace' = [trace EXCEPT ![w] = <<>>]
    /\ UNCHANGED <<phase, CONFIG, accepted, osCount>>

Step(w) ==
    \/ do_OPTIONS(w)
    \/ Unsupported(w)
    \/ do_GET(w)
    \/ do_POST_origin(w)
    \/ do_POST_token(w)
    \/ do_POST_route(w)
    \/ open_in_safari(w)
    \/ subprocess_done(w)
    \/ Finish(w)

Next ==
    \/ load_env_overrides
    \/ main
    \/ Accept
    \/ \E w \in Workers : Step(w)

\* One request at a time, over every request of Requests.
Spec == Init /\ [][Next]_vars

(***************************************************************************)
(* Requests in parallel: socketserver.ThreadingMixIn starts one thread per *)
(* request, so the handlers of two requests interleave step by step.       *)
(***************************************************************************)
Near == Addr(10, 211, 55, 5)
Far == Addr(10, 0, 0, 5)
HttpsUrl == Body("json", Dict(TRUE, JStr(HTTPS \o HOST \o <<" ">>)))
FtpUrl == Body("json", Dict(TRUE, JStr(FTP \o HOST)))

ConcRequests ==
    {Request("POST", OPEN, Near, "changeme123456", HttpsUrl),
     Request("POST", OPEN, Near, "s3cret", FtpUrl),
     Request("POST", OPEN, Near, NoHeader, HttpsUrl),
     Request("POST", OPEN, Far, "changeme123456", HttpsUrl),
     Request("POST", OPEN, Near, "changeme123456", Body("json", NonDict(JList(1)))),
     Request("POST", <<"/">>, Near, "changeme123456", EmptyBody),
     Request("GET", PING, Far, "s3cret", EmptyBody),
     Request("OPTIONS", OPEN, Near, NoHeader, EmptyBody),
     Request("PUT", OPEN, Near, "changeme123456", EmptyBody)}

ConcAccept == \E w \in Workers : CanStart(w) /\ \E r \in ConcRequests : Start(w, r)

ConcNext ==
    \/ load_env_overrides
    \/ main
    \/ ConcAccept
    \/ \E w \in Workers : Step(w)

\* Two requests at a time, over the requests of ConcRequests.
ConcSpec == Init /\ [][ConcNext]_vars

\* The threads are scheduled by the operating system, which lets every
\* runnable thread run, and subprocess.run gives up after its timeout.
FairSpec == ConcSpec /\ \A w \in Workers : WF_vars(Step(w))

(***************************************************************************)
(* The handler as a whole: what one request, handled alone under           *)
(* configuration cfg with child process c, is answered and launches.       *)
(***************************************************************************)
Outcome(r, l) == [resp |-> r, launched |-> l]

do_POST(cfg, r, c) ==
    IF ~client_allowed(cfg, r.client_ip)
    THEN Outcome(_reject(403, "Forbidden: Client IP not allowed"), <<>>)
    ELSE IF ~token_ok(cfg, r)
    THEN Outcome(_reject(401, "Unauthorized: Bad token"), <<>>)
    ELSE IF ~IsOpen(r.path)
    THEN Outcome(_reject(404, "Not Found"), <<>>)
    ELSE LET data == _read_json(r.body)
             got == ExtractUrl(data.val)
         IN IF data.exc # "" THEN Outcome(Unhandled(data.exc), <<>>)
            ELSE IF got.exc # "" THEN Outcome(Unhandled(got.exc), <<>>)
            ELSE IF got.val = <<>> THEN Outcome(_reject(400, "Missing 'url'"), <<>>)
            ELSE IF ~SchemeOk(got.val)
            THEN Outcome(_reject(500, "Only http/https URLs are permitted."), <<>>)
            ELSE IF cfg.DRY_RUN
            THEN Outcome(_ok([ok |-> TRUE, message |-> "DRY_RUN: OK"]), <<>>)
            ELSE Outcome(ActionResponse(RunResult(c)), <<got.val>>)

Handle(cfg, r, c) ==
    CASE r.method = "POST" -> do_POST(cfg, r, c)
      [] r.method = "GET" ->
            Outcome(IF IsPing(r.path) THEN _ok(PingPayload(cfg, r))
                    ELSE _reject(404, "Not Found"), <<>>)
      [] r.method = "OPTIONS" -> Outcome(Response(204, "", NoPayload), <<>>)
      [] OTHER ->
            Outcome(Response(501, "text/html;charset=utf-8",
                             [html |-> "Unsupported method"]), <<>>)

(***************************************************************************)
(* Properties.  The predicates below restate the conditions of the claims  *)
(* on the request and the configuration directly, not through the          *)
(* operators the handlers use.                                             *)
(***************************************************************************)
Done(w) == pc[w] = "done"
PostOpen(w) == Done(w) /\ req[w].method = "POST" /\ IsOpen(req[w].path)

\* The client address parses and lies in one of the configured ranges.
InsideSomeRange(w) ==
    /\ req[w].client_ip.kind = "v4"
    /\ \E i \in DOMAIN CONFIG.ALLOWED_SUBNETS :
          LET net == CONFIG.ALLOWED_SUBNETS[i]
          IN /\ net.kind = "v4"
             /\ LET size == Pow2(32 - net.p)
                    low == (ToInt(net.o) \div size) * size
                IN /\ low <= ToInt(req[w].client_ip.o)
                   /\ ToInt(req[w].client_ip.o) <= low + (size - 1)

\* The secret check passes: no secret is configured, or the header is it.
SecretMatches(w) ==
    CONFIG.SHARED_TOKEN = "" \/ req[w].token = CONFIG.SHARED_TOKEN

Authorized(w) == InsideSomeRange(w) /\ SecretMatches(w)

\* The body decodes to fields among which url is a string.
CarriesUrl(w) ==
    /\ req[w].body.kind \in {"json", "form"}
    /\ req[w].body.data.t = "dict"
    /\ req[w].body.data.has_url
    /\ req[w].body.data.url.t = "str"
SentUrl(w) == req[w].body.data.url.s

Blank(u) == \A i \in DOMAIN u : u[i] \in {" ", "\t", "\n"}

(***************************************************************************)
(* C1.  A POST /open whose client address does not parse or lies outside   *)
(* every configured range is answered 403 and launches nothing, whatever   *)
(* its token header and body; the origin check is the only check made.     *)
(***************************************************************************)
C1_OriginDenied ==
    \A w \in Workers :
        (PostOpen(w) /\ ~InsideSomeRange(w)) =>
            /\ resp[w] = _reject(403, "Forbidden: Client IP not allowed")
            /\ launched[w] = <<>>
            /\ trace[w] = <<"origin">>

C1_Witness ==
    \E w \in Workers :
        /\ PostOpen(w) /\ ~InsideSomeRange(w)
        /\ req[w].client_ip.kind = "v4"
        /\ req[w].token = CONFIG.SHARED_TOKEN
        /\ CarriesUrl(w) /\ SentUrl(w) = HTTPS \o HOST
        /\ resp[w].status = 403

(***************************************************************************)
(* C2.  A POST /open from an allowed address is answered 401 exactly when  *)
(* the configured secret is non-empty and the token header is not equal to *)
(* it (an absent header included); a 401 launches nothing; with an empty   *)
(* secret there is no 401.                                                 *)
(***************************************************************************)
C2_SecretCheck ==
    \A w \in Workers :
        (PostOpen(w) /\ InsideSomeRange(w)) =>
            /\ (resp[w].status = 401) <=>
                  (CONFIG.SHARED_TOKEN # "" /\ req[w].token # CONFIG.SHARED_TOKEN)
            /\ (resp[w].status = 401) =>
                  /\ resp[w] = _reject(401, "Unauthorized: Bad token")
                  /\ launched[w] = <<>>
            /\ (CONFIG.SHARED_TOKEN = "") => (resp[w].status # 401)

C2_Witness ==
    \E w \in Workers :
        /\ PostOpen(w) /\ InsideSomeRange(w)
        /\ req[w].token = NoHeader
        /\ CarriesUrl(w) /\ SentUrl(w) = HTTPS \o HOST
        /\ resp[w].status = 401

(***************************************************************************)
(* C3.  The conditions of the claim on a request: authorized POST /open    *)
(* whose body carries a url string beginning with http:// or https://,     *)
(* dry-run disabled.                                                       *)
(***************************************************************************)
C3_Case(w) ==
    /\ PostOpen(w) /\ Authorized(w)
    /\ CarriesUrl(w)
    /\ (StartsWith(SentUrl(w), HTTP) \/ StartsWith(SentUrl(w), HTTPS))
    /\ ~CONFIG.DRY_RUN

\* C3 as stated: such a request launches the OS command exactly once, with
\* exactly the url of the body, and is answered 200 "Opened in Safari" when
\* the command exits zero.
C3_Original ==
    \A w \in Workers :
        C3_Case(w) =>
            /\ launched[w] = <<SentUrl(w)>>
            /\ (child[w].kind = "exit" /\ child[w].code = 0) =>
                  resp[w] = _ok([ok |-> TRUE, message |-> "Opened in Safari"])

\* C3 as amended: the command is launched exactly once with the url of the
\* body stripped of the whitespace around it; the answer is 200 "Opened in
\* Safari" when the command exits zero; and once every request has
\* finished, the number of launches equals the number of finished requests
\* that met the conditions to launch.
C3_OpensOnce ==
    /\ \A w \in Workers :
          C3_Case(w) =>
              /\ launched[w] = <<Strip(SentUrl(w))>>
              /\ (child[w].kind = "exit" /\ child[w].code = 0) =>
                    resp[w] = _ok([ok |-> TRUE, message |-> "Opened in Safari"])
    /\ \A w \in Workers : Done(w) => Len(launched[w]) <= 1
    /\ (\A w \in Workers : pc[w] = "idle") => osCount = expected

C3_Witness ==
    \E w \in Workers :
        /\ C3_Case(w)
        /\ SentUrl(w) = HTTPS \o HOST \o <<" ">>
        /\ child[w].kind = "exit" /\ child[w].code = 0
        /\ resp[w].status = 200
        /\ launched[w] = <<HTTPS \o HOST>>
        /\ osCount = 2

(***************************************************************************)
(* C4.  GET /ping is answered 200 and launches nothing, for every client   *)
(* address and token header; ok is the conjunction of allowed and          *)
(* token_ok, which report the origin check and the secret check.           *)
(***************************************************************************)
C4_Ping ==
    \A w \in Workers :
        (Done(w) /\ req[w].method = "GET" /\ IsPing(req[w].path)) =>
            /\ resp[w].status = 200
            /\ resp[w].exc = ""
            /\ launched[w] = <<>>
            /\ resp[w].body.ok = (resp[w].body.allowed /\ resp[w].body.token_ok)
            /\ resp[w].body.allowed = InsideSomeRange(w)
            /\ resp[w].body.token_ok = SecretMatches(w)

C4_Witness ==
    \E w \in Workers :
        /\ Done(w) /\ req[w].method = "GET" /\ req[w].path = PING
        /\ ~InsideSomeRange(w) /\ ~SecretMatches(w)
        /\ resp[w].status = 200
        /\ resp[w].body.ok = FALSE

(***************************************************************************)
(* C5.  An authorized POST /open whose body is absent, does not decode as  *)
(* JSON or form data, or decodes to fields with no url or with an empty or *)
(* whitespace-only url, is answered 400 and launches nothing.              *)
(***************************************************************************)
C5_NoUrl(w) ==
    \/ req[w].body.kind \in {"none", "binary", "text"}
    \/ /\ req[w].body.kind \in {"json", "form"}
       /\ req[w].body.data.t = "dict"
       /\ ~req[w].body.data.has_url
    \/ CarriesUrl(w) /\ Blank(SentUrl(w))

C6_Case(w) ==
    /\ PostOpen(w) /\ CarriesUrl(w) /\ ~Blank(SentUrl(w))
    /\ ~(StartsWith(SentUrl(w), HTTP) \/ StartsWith(SentUrl(w), HTTPS))

C6_Stripped(w) ==
    /\ PostOpen(w) /\ CarriesUrl(w) /\ ~Blank(SentUrl(w))
    /\ ~(StartsWith(Strip(SentUrl(w)), HTTP) \/ StartsWith(Strip(SentUrl(w)), HTTPS))

\* C6 as stated: such a request is answered with the failure "Only
\* http/https URLs are permitted." whatever its authorization outcome, and
\* launches nothing.
C6_Original ==
    \A w \in Workers :
        C6_Case(w) =>
            /\ IsJsonError(resp[w])
            /\ resp[w].body.error = "Only http/https URLs are permitted."
            /\ launched[w] = <<>>

\* C6 as amended: when the request passes the origin and secret checks and
\* its url, stripped, does not begin with http:// or https://, the answer
\* is 500 "Only http/https URLs are permitted."; when it fails the origin
\* check the answer is 403, and when it fails the secret check 401; in
\* every case nothing is launched.
C6_SchemeRejected ==
    \A w \in Workers :
        C6_Stripped(w) =>
            /\ Authorized(w) =>
                  resp[w] = _reject(500, "Only http/https URLs are permitted.")
            /\ ~InsideSomeRange(w) => resp[w].status = 403
            /\ (InsideSomeRange(w) /\ ~SecretMatches(w)) => resp[w].status = 401
            /\ launched[w] = <<>>

C6_Witness ==
    \E w \in Workers :
        /\ C6_Stripped(w) /\ Authorized(w)
        /\ SentUrl(w) = FTP \o HOST
        /\ CONFIG.DRY_RUN
        /\ resp[w].status = 500

(***************************************************************************)
(* C7.  C7 as stated, for POST: a POST on a path other than /open is       *)
(* answered 404 whatever the caller's origin and token.                    *)
(***************************************************************************)
C7_Original ==
    \A w \in Workers :
        (Done(w) /\ req[w].method = "POST" /\ ~IsOpen(req[w].path)) =>
            resp[w].status = 404

\* C7 as amended: a GET whose path does not start with /ping is answered
\* 404; a POST whose path does not start with /open is answered 404 when
\* it passes the origin and secret checks, 403 when it fails the origin
\* check and 401 when it passes the origin check and fails the secret
\* check; a method other than GET, POST and OPTIONS is answered 501.
C7_NotFound ==
    \A w \in Workers :
        Done(w) =>
            /\ (req[w].method = "GET" /\ ~StartsWith(req[w].path, PING)) =>
                  resp[w] = _reject(404, "Not Found")
            /\ (req[w].method = "POST" /\ ~StartsWith(req[w].path, OPEN)) =>
                  /\ Authorized(w) => resp[w] = _reject(404, "Not Found")
                  /\ ~InsideSomeRange(w) => resp[w].status = 403
                  /\ (InsideSomeRange(w) /\ ~SecretMatches(w)) => resp[w].status = 401
            /\ req[w].method \notin {"GET", "POST", "OPTIONS"} => resp[w].status = 501

C7_Witness ==
    \E w \in Workers :
        /\ Done(w) /\ req[w].method = "POST" /\ req[w].path = <<"/">>
        /\ Authorized(w)
        /\ resp[w].status = 404

(***************************************************************************)
(* C8.  Every GET or POST request ends with a response written, no         *)
(* exception left unhandled in the worker, and every response that is not  *)
(* a 200 has a JSON body with ok false and an error string.                *)
(***************************************************************************)
C8_AlwaysAnswered ==
    \A w \in Workers :
        (Done(w) /\ req[w].method \in {"GET", "POST"}) =>
            /\ resp[w].exc = ""
            /\ resp[w].status # 0
            /\ resp[w].status # 200 => IsJsonError(resp[w])

(***************************************************************************)
(* C9.  With requests handled in parallel, every request is answered and   *)
(* launches exactly what it would if handled alone, and CONFIG is not      *)
(* written once the listener serves.                                       *)
(***************************************************************************)
C9_Isolated ==
    /\ [](\A w \in Workers :
             Done(w) =>
                /\ resp[w] = Handle(CONFIG, req[w], child[w]).resp
                /\ launched[w] = Handle(CONFIG, req[w], child[w]).launched)
    /\ [][phase = "serving" => CONFIG' = CONFIG]_vars

C9_Witness ==
    \E w \in Workers, v \in Workers :
        /\ w # v
        /\ Done(w) /\ resp[w].status = 200 /\ launched[w] # <<>>
        /\ pc[v] = "running" /\ child[v].kind = "hang"

(***************************************************************************)
(* C10.  A POST /open that launched the OS command is answered: 200 when   *)
(* the command exits zero, 500 with the error text when it exits non-zero, *)
(* cannot be run or is still running at the timeout; and a worker waiting  *)
(* for the command always comes to write its response.                     *)
(***************************************************************************)
C10_Answer(w) ==
    LET c == child[w]
    IN /\ (c.kind = "exit" /\ c.code = 0) =>
             resp[w] = _ok([ok |-> TRUE, message |-> "Opened in Safari"])
       /\ (c.kind = "exit" /\ c.code # 0) =>
             /\ resp[w].status = 500 /\ IsJsonError(resp[w])
             /\ c.stderr = NoApp \o "\n" => resp[w].body.error = NoApp
             /\ c.stderr \in {"", "\n"} =>
                   resp[w].body.error = "Unknown error from 'open'"
       /\ c.kind = "raise" =>
             /\ resp[w].status = 500 /\ IsJsonError(resp[w])
             /\ resp[w].body.error = c.stderr
       /\ c.kind = "hang" =>
             /\ resp[w].status = 500 /\ IsJsonError(resp[w])
             /\ resp[w].body.error = TimeoutExpired

C10_Completes ==
    /\ [](\A w \in Workers : (Done(w) /\ launched[w] # <<>>) => C10_Answer(w))
    /\ \A w \in Workers : (pc[w] = "running") ~> Done(w)

C10_Witness ==
    \E w \in Workers :
        /\ Done(w) /\ launched[w] # <<>>
        /\ child[w].kind = "hang"
        /\ resp[w].status = 500

====
